---------------------------- MODULE Spec2Model ----------------------------
(***************************************************************************)
(* A model of the scippr inference notebook (aimalz/prob-Hubble):          *)
(*   - the hyperlikelihood / posterior engine (param_check,                *)
(*     lnhyperlikelihood, mu_binner, lnposterior, lnhyperposterior),       *)
(*   - the floor functions safe_log and reg_vals,                          *)
(*   - the Gelman-Rubin convergence diagnostic,                            *)
(*   - the MCMC driver run_MCMC with its burn-in loop,                     *)
(*   - the loop that draws the initial positions, and                      *)
(*   - sampler threads evaluating lnhyperposterior side by side.           *)
(*                                                                         *)
(* Numbers.  Real numbers are exact rationals <<num, den>> (den > 0, in    *)
(* lowest terms).  A floating-point result that numpy can produce outside  *)
(* the reals (nan, +inf) is a tagged value, see FNum / FNaN / FInf.        *)
(* H0 is counted in units of 0.1 km/s/Mpc and Om0 in units of 0.001, so    *)
(* that the notebook's bounds and prior parameters are integers.           *)
(* A log-domain quantity v (a log-density, a log-probability) is           *)
(* represented by the rational exp(v): adding logs is multiplying the      *)
(* representatives, np.exp and np.log are the change of reading, and the   *)
(* floors of safe_log (epsilon) and reg_vals (log_epsilon) are scaled to  *)
(* the model's range, see epsilon and log_epsilon.                         *)
(***************************************************************************)
EXTENDS Integers, Sequences, FiniteSets, TLC

(***************************************************************************)
(* Exact rational arithmetic.                                              *)
(***************************************************************************)
Abs(x) == IF x < 0 THEN -x ELSE x

RECURSIVE GCD(_, _)
GCD(a, b) == IF b = 0 THEN a ELSE GCD(b, a % b)

Rat(n, d) ==
    LET g == GCD(Abs(n), Abs(d))
        s == IF d < 0 THEN -1 ELSE 1
    IN  IF n = 0 THEN <<0, 1>> ELSE <<s * (n \div g), s * (d \div g)>>

RInt(k) == <<k, 1>>
RAdd(a, b) == Rat(a[1] * b[2] + b[1] * a[2], a[2] * b[2])
RSub(a, b) == Rat(a[1] * b[2] - b[1] * a[2], a[2] * b[2])
RMul(a, b) == Rat(a[1] * b[1], a[2] * b[2])
RDiv(a, b) == Rat(a[1] * b[2], a[2] * b[1])
RLt(a, b) == a[1] * b[2] < b[1] * a[2]
RLeq(a, b) == a[1] * b[2] <= b[1] * a[2]
RMax(a, b) == IF RLt(a, b) THEN b ELSE a
RZero == <<0, 1>>
ROne == <<1, 1>>

RECURSIVE RSumSeq(_)
RSumSeq(s) == IF s = <<>> THEN RZero ELSE RAdd(Head(s), RSumSeq(Tail(s)))

(***************************************************************************)
(* numpy arrays are sequences, stored element by element: Array(f) is f as *)
(* a stored sequence (merging f with the empty sequence evaluates every    *)
(* element once), Array3 the same for the shape (n_types, n_zs, n_mus).    *)
(***************************************************************************)
Array(f) == f @@ <<>>

Array3(f) ==
    Array([t \in DOMAIN f |->
              Array([z \in DOMAIN f[t] |-> Array(f[t][z])])])

(***************************************************************************)
(* numpy float64 results: a real number, nan, or +inf.                     *)
(***************************************************************************)
FNum(r) == [kind |-> "num", val |-> r]
FNaN == [kind |-> "nan", val |-> RZero]
FInf == [kind |-> "inf", val |-> RZero]

\* x / y for x >= 0, y >= 0 as numpy divides float64: 0/0 is nan, x/0 is inf.
FDiv(x, y) ==
    IF x.kind = "nan" \/ y.kind = "nan" THEN FNaN
    ELSE IF y.val = RZero THEN (IF x.val = RZero THEN FNaN ELSE FInf)
    ELSE FNum(RDiv(x.val, y.val))

\* a > b for floats: every comparison with nan is False.
FGt(a, b) ==
    CASE a.kind = "nan" \/ b.kind = "nan" -> FALSE
      [] a.kind = "inf" -> b.kind # "inf"
      [] b.kind = "inf" -> FALSE
      [] OTHER -> RLt(b.val, a.val)

\* a <= b for floats: every comparison with nan is False.
FLeq(a, b) ==
    CASE a.kind = "nan" \/ b.kind = "nan" -> FALSE
      [] b.kind = "inf" -> TRUE
      [] a.kind = "inf" -> FALSE
      [] OTHER -> RLeq(a.val, b.val)

\* np.max of a non-empty 1-D array: nan as soon as one element is nan.
RECURSIVE NpMax(_)
NpMax(s) ==
    IF Len(s) = 1 THEN s[1]
    ELSE LET r == NpMax(Tail(s))
         IN  IF s[1].kind = "nan" \/ r.kind = "nan" THEN FNaN
             ELSE IF FGt(r, s[1]) THEN r ELSE s[1]

(***************************************************************************)
(* Log-domain values.  [ln |-> r] is the log-domain value ln(r), r > 0.    *)
(***************************************************************************)
NpLog(r) == [ln |-> r]
NpExp(v) == v.ln
LAdd(a, b) == [ln |-> RMul(a.ln, b.ln)]
LSub(a, b) == [ln |-> RDiv(a.ln, b.ln)]
LLt(a, b) == RLt(a.ln, b.ln)

\* epsilon = sys.float_info.min and log_epsilon = sys.float_info.min_exp,
\* scaled to the model's range: log_epsilon (-1021) lies below
\* ln(epsilon) (-708.4), and both lie below every other value of the model.
epsilon == <<1, 16>>
log_epsilon == [ln |-> <<1, 64>>]

\* safe_log on one element: np.log(max(a, threshold))
safe_log(a, threshold) == NpLog(IF RLt(a, threshold) THEN threshold ELSE a)

\* reg_vals on one element: arr[arr < threshold] = threshold
reg_vals(v, threshold) == IF LLt(v, threshold) THEN threshold ELSE v

\* Python's max(a, b) on log-domain scalars: b if b > a, else a.
PyMax(a, b) == IF LLt(a, b) THEN b ELSE a

(***************************************************************************)
(* The hyperprior.  H0 in units of 0.1, Om0 in units of 0.001.             *)
(***************************************************************************)
min_H0 == 500
max_H0 == 900
min_Om0 == 0
max_Om0 == 1000
H0_mean == 700
H0_std == 44
Om0_mean == 279
Om0_std == 50

\* param_check with the bounds included (>= and <= in place of > and <).
param_check_inclusive(params) ==
    IF params[1] >= min_H0 /\ params[1] <= max_H0
       /\ params[2] >= min_Om0 /\ params[2] <= max_Om0
    THEN TRUE
    ELSE FALSE

param_check(params) ==
    IF params[1] > min_H0 /\ params[1] < max_H0
       /\ params[2] > min_Om0 /\ params[2] < max_Om0
    THEN TRUE
    ELSE FALSE

\* sps.norm(mean, std).logpdf(x).  scipy's Gaussian is stood in for by a
\* density that halves with every whole standard deviation from the mean
\* (to at most three): positive everywhere, largest at the mean.
norm_logpdf(x, mean, std) ==
    LET k == Abs(x - mean) \div std
    IN  NpLog(Rat(1, 2 ^ (IF k > 3 THEN 3 ELSE k)))

\* indie_dist.logpdf for prior_cosmo_dist = indie_dist([H0_dist, Om0_dist])
indie_dist_logpdf(locs) ==
    LAdd(norm_logpdf(locs[1], H0_mean, H0_std),
         norm_logpdf(locs[2], Om0_mean, Om0_std))

lnprior(hyperparameters) == indie_dist_logpdf(hyperparameters)

(***************************************************************************)
(* The parameter space and the catalog (sim_info, read from data/data.hkl).*)
(***************************************************************************)
VARIABLES
    z_bins,                 \* redshift bin edges
    mu_bins,                \* distance-modulus bin edges
    lninterimposteriors,    \* [n_SNe][n_types][n_zs][n_mus] log-densities
    interim_ln_prior,       \* [n_types][n_zs][n_mus] log-densities
    ln_selection_function,  \* [n_types][n_zs][n_mus] log-densities
    flat_lnhyperlikelihood, \* module-level array, built once
    const_term,             \* module-level array, built once
    ret,                    \* the last call: function, argument, outcome
    remembered              \* an earlier lnposterior call, and how many calls followed

evalVars == <<z_bins, mu_bins, lninterimposteriors, interim_ln_prior,
              ln_selection_function, flat_lnhyperlikelihood, const_term,
              ret, remembered>>

types == <<"Ia", "II">>
n_types == Len(types)
n_SNe == Len(lninterimposteriors)

\* z_bins[1:] - z_bins[:-1], (z_bins[1:] + z_bins[:-1]) / 2., len(z_difs)
z_difs == Array([i \in 1..(Len(z_bins) - 1) |->
                    RInt(z_bins[i + 1] - z_bins[i])])
z_mids == Array([i \in 1..(Len(z_bins) - 1) |->
                    Rat(z_bins[i + 1] + z_bins[i], 2)])
n_zs == Len(z_difs)

mu_difs == Array([i \in 1..(Len(mu_bins) - 1) |->
                     RInt(mu_bins[i + 1] - mu_bins[i])])
n_mus == Len(mu_difs)

\* Sum of a [n_types][n_zs][n_mus]-shaped family of rationals.
RSum3(a) ==
    RSumSeq(Array([t \in 1..Len(a) |->
        RSumSeq(Array([z \in 1..Len(a[t]) |-> RSumSeq(a[t][z])]))]))

(***************************************************************************)
(* The log-hyperlikelihood.                                                *)
(***************************************************************************)
\* cosmology.FlatLambdaCDM(H0, Om0).distmod(z): astropy's distance modulus
\* is stood in for by a function of the same monotonicity (rising with z,
\* falling with H0 and with Om0) on the model's grid units.
distmod(cosmo_hyperparameters, z) ==
    RAdd(RSub(RMul(RInt(2), z), RInt(3)),
         RInt((H0_mean - cosmo_hyperparameters[1]) \div 100
              + (300 - cosmo_hyperparameters[2]) \div 100))

\* bisect.bisect(a, x): the number of elements of the sorted list a that
\* are <= x.
Bisect(a, x) == Cardinality({i \in 1..Len(a) : RLeq(RInt(a[i]), x)})

\* The 1-based position that vector[ind] addresses, ind = bisect(...) - 1
\* being a 0-based Python index: ind = -1 addresses the last element.
MuIndex(mu) ==
    LET ind == Bisect(SubSeq(mu_bins, 1, Len(mu_bins) - 1), mu) - 1
    IN  IF ind < 0 THEN n_mus + ind + 1 ELSE ind + 1

\* The one-hot row np.zeros(n_mus) with vector[ind] = 1.
OneHot(ind) == Array([m \in 1..n_mus |-> IF m = ind THEN ROne ELSE RZero])

mu_binner(mus) ==
    LET matrix == Array([z \in 1..Len(mus) |-> OneHot(MuIndex(mus[z]))])
    IN  Array([t \in 1..n_types |-> matrix])

\* line 438, the normalising sum:
\* np.sum(delta * z_difs[newaxis, :, newaxis] * mu_difs[newaxis, newaxis, :]
\*        * np.ones((n_types))[:, newaxis, newaxis] / n_types)
NormSum(delta) ==
    RSum3(Array3([t \in 1..n_types |-> [z \in 1..n_zs |-> [m \in 1..n_mus |->
        RDiv(RMul(RMul(RMul(delta[t][z][m], z_difs[z]), mu_difs[m]), ROne),
             RInt(n_types))]]]))

\* line 439, the sum the assert checks: mu_difs is indexed
\* [newaxis, :, newaxis], along the redshift axis.  numpy broadcasts
\* (n_types, n_zs, n_mus) with (1, n_mus, 1) when n_mus = n_zs, n_mus = 1 or
\* n_zs = 1, and raises ValueError otherwise.
AssertSum(delta) ==
    IF n_mus = n_zs \/ n_mus = 1
    THEN [kind |-> "ok", val |->
            RSum3(Array3([t \in 1..n_types |-> [z \in 1..n_zs |->
                [m \in 1..n_mus |->
                    RDiv(RMul(RMul(RMul(delta[t][z][m], z_difs[z]),
                                   mu_difs[IF n_mus = 1 THEN 1 ELSE z]), ROne),
                         RInt(n_types))]]]))]
    ELSE IF n_zs = 1
    THEN [kind |-> "ok", val |->
            RSum3(Array3([t \in 1..n_types |-> [i \in 1..n_mus |->
                [m \in 1..n_mus |->
                    RDiv(RMul(RMul(RMul(delta[t][1][m], z_difs[1]),
                                   mu_difs[i]), ROne),
                         RInt(n_types))]]]))]
    ELSE [kind |-> "ValueError", val |-> RZero]

\* np.isclose(a, b): |a - b| <= atol + rtol * |b| with atol = 1e-8 and
\* rtol = 1e-5, for b = 1: |a - 1| <= 1001 / 10^8.
IsCloseToOne(a) ==
    LET d == RSub(a, ROne)
    IN  Abs(d[1]) * 10000 <= (1001 * d[2]) \div 10000

Raised(exception, calls) == [kind |-> exception, val |-> <<>>, calls |-> calls]
Returned(value, calls) == [kind |-> "ok", val |-> value, calls |-> calls]

lnhyperlikelihood_in_bounds(hyperparameters) ==
    LET mus == Array([z \in 1..n_zs |-> distmod(hyperparameters, z_mids[z])])
        delta0 == mu_binner(mus)
        norm == NormSum(delta0)
        delta == Array3([t \in 1..n_types |-> [z \in 1..n_zs |->
                     [m \in 1..n_mus |-> RDiv(delta0[t][z][m], norm)]]])
        checked == AssertSum(delta)
        calls == {"distmod", "mu_binner"}
    IN  IF checked.kind # "ok" THEN Raised(checked.kind, calls)
        ELSE IF ~IsCloseToOne(checked.val) THEN Raised("AssertionError", calls)
        ELSE Returned(Array3([t \in 1..n_types |-> [z \in 1..n_zs |->
                          [m \in 1..n_mus |->
                              safe_log(delta[t][z][m], epsilon)]]]),
                      calls)

\* lnhyperlikelihood with the out-of-bounds branch building
\* log_epsilon * np.ones(...) (the alternative the source comments out at
\* line 430) instead of returning the precomputed array.
lnhyperlikelihood_flat_rebuilt(hyperparameters) ==
    IF param_check(hyperparameters)
    THEN lnhyperlikelihood_in_bounds(hyperparameters)
    ELSE Returned(Array3([t \in 1..n_types |-> [z \in 1..n_zs |->
                      [m \in 1..n_mus |-> log_epsilon]]]), {})

\* The outcome of lnhyperlikelihood(hyperparameters): what it returns or
\* raises, and which collaborators it called.
lnhyperlikelihood(hyperparameters) ==
    IF param_check(hyperparameters)
    THEN lnhyperlikelihood_in_bounds(hyperparameters)
    ELSE Returned(flat_lnhyperlikelihood, {})

(***************************************************************************)
(* The log-posterior.                                                      *)
(***************************************************************************)
\* line 484: reg_vals(lninterimposteriors - lninterimhyperlikelihood[newaxis]
\*                    - lnselectionfunction[newaxis])
ConstTermOf(posteriors, prior, selection) ==
    Array([o \in 1..Len(posteriors) |->
        Array3([t \in 1..Len(prior) |-> [z \in 1..Len(prior[t]) |->
            [m \in 1..Len(prior[t][z]) |->
                reg_vals(LSub(LSub(posteriors[o][t][z][m], prior[t][z][m]),
                              selection[t][z][m]),
                         log_epsilon)]]])])

\* lines 427, 430: safe_log(np.ones(np.shape(interim_ln_prior)) * epsilon)
FlatOf(prior) ==
    Array3([t \in 1..Len(prior) |-> [z \in 1..Len(prior[t]) |->
        [m \in 1..Len(prior[t][z]) |->
            safe_log(RMul(ROne, epsilon), epsilon)]]])

\* The integral of every object taken over the first object's slice of
\* const_term.
InLog_first_object(new_term, o) ==
    LET in_exp == Array3([t \in 1..n_types |-> [z \in 1..n_zs |->
                      [m \in 1..n_mus |->
                          reg_vals(LAdd(const_term[1][t][z][m],
                                        new_term[t][z][m]),
                                   log_epsilon)]]])
    IN  RDiv(RSumSeq(Array([t \in 1..n_types |->
                RSumSeq(Array([z \in 1..n_zs |->
                    RMul(RSumSeq(Array([m \in 1..n_mus |->
                            RMul(NpExp(in_exp[t][z][m]), mu_difs[m])])),
                         z_difs[z])]))])),
             RInt(n_types))

\* lines 489-491 for object o, given new_term = lnhyperlikelihood(h)
InLog(new_term, o) ==
    LET in_exp == Array3([t \in 1..n_types |-> [z \in 1..n_zs |->
                      [m \in 1..n_mus |->
                          reg_vals(LAdd(const_term[o][t][z][m],
                                        new_term[t][z][m]),
                                   log_epsilon)]]])
    IN  RDiv(RSumSeq(Array([t \in 1..n_types |->
                RSumSeq(Array([z \in 1..n_zs |->
                    RMul(RSumSeq(Array([m \in 1..n_mus |->
                            RMul(NpExp(in_exp[t][z][m]), mu_difs[m])])),
                         z_difs[z])]))])),
             RInt(n_types))

RECURSIVE LSumSeq(_)
LSumSeq(s) == IF s = <<>> THEN NpLog(ROne) ELSE LAdd(Head(s), LSumSeq(Tail(s)))

lnposterior(hyperparameters) ==
    LET hl == lnhyperlikelihood(hyperparameters)
    IN  IF hl.kind # "ok" THEN Raised(hl.kind, hl.calls)
        ELSE LET in_sum == Array([o \in 1..n_SNe |->
                                     safe_log(InLog(hl.val, o), epsilon)])
             IN  Returned(LSumSeq(in_sum), hl.calls)

\* lnposterior adding new_term into const_term in place
\* (const_term += new_term) instead of building const_term + new_term.
lnposterior_effect_in_place(hyperparameters) ==
    LET hl == lnhyperlikelihood(hyperparameters)
    IN  IF hl.kind # "ok" THEN const_term
        ELSE Array([o \in 1..n_SNe |->
                 Array3([t \in 1..n_types |-> [z \in 1..n_zs |->
                     [m \in 1..n_mus |->
                         reg_vals(LAdd(const_term[o][t][z][m],
                                       hl.val[t][z][m]),
                                  log_epsilon)]]])])

\* What a call of lnposterior leaves in const_term: const_term + new_term is
\* a new array, and reg_vals writes into that temporary only.
lnposterior_effect(hyperparameters) == const_term

\* lnhyperposterior without the floor.
lnhyperposterior_no_floor(hyperparameters) ==
    LET post == lnposterior(hyperparameters)
    IN  IF post.kind # "ok" THEN post
        ELSE Returned(LAdd(lnprior(hyperparameters), post.val), post.calls)

lnhyperposterior(hyperparameters) ==
    LET post == lnposterior(hyperparameters)
    IN  IF post.kind # "ok" THEN post
        ELSE Returned(PyMax(LAdd(lnprior(hyperparameters), post.val),
                            log_epsilon),
                      post.calls)

(***************************************************************************)
(* Gelman-Rubin convergence diagnostic.                                    *)
(* A one-parameter chain is a sequence over walkers of sequences over      *)
(* iterations of parameter values.  R_hat = sqrt(var_x / W) is represented *)
(* by its square var_x / W, and thresholds are compared squared.           *)
(***************************************************************************)
RECURSIVE SumSeq(_)
SumSeq(s) == IF s = <<>> THEN 0 ELSE Head(s) + SumSeq(Tail(s))

\* np.mean of a sequence of integers.
Mean(xs) == Rat(SumSeq(xs), Len(xs))

\* np.mean of a sequence of rationals.
RMean(rs) == RDiv(RSumSeq(rs), RInt(Len(rs)))

RSq(r) == RMul(r, r)

\* sum of squared deviations of xs from its mean
SqDev(xs) == RSumSeq([i \in 1..Len(xs) |-> RSq(RSub(RInt(xs[i]), Mean(xs)))])

\* np.var(xs, ddof=1): the divisor n - 1 is 0 for a single sample (0/0 = nan).
VarDdof1(xs) == FDiv(FNum(SqDev(xs)), FNum(RInt(Len(xs) - 1)))

\* single_parameter_gr_stat with var_x = W + B / n, the within-chain
\* variance entering without its weight (n - 1) / n.
single_parameter_gr_stat_unweighted(chain) ==
    LET m == Len(chain)
        n == Len(chain[1])
        ssq == [w \in 1..m |-> VarDdof1(chain[w])]
        W == IF \E w \in 1..m : ssq[w].kind = "nan" THEN FNaN
             ELSE FNum(RMean([w \in 1..m |-> ssq[w].val]))
        xb == [w \in 1..m |-> Mean(chain[w])]
        xbb == RMean(xb)
        B == RMul(Rat(n, m - 1),
                  RSumSeq([w \in 1..m |-> RSq(RSub(xbb, xb[w]))]))
        var_x == IF W.kind = "nan" THEN FNaN
                 ELSE FNum(RAdd(W.val, RMul(Rat(1, n), B)))
    IN  FDiv(var_x, W)

single_parameter_gr_stat(chain) ==
    LET m == Len(chain)
        n == Len(chain[1])
        ssq == [w \in 1..m |-> VarDdof1(chain[w])]
        W == IF \E w \in 1..m : ssq[w].kind = "nan" THEN FNaN
             ELSE FNum(RMean([w \in 1..m |-> ssq[w].val]))
        xb == [w \in 1..m |-> Mean(chain[w])]
        xbb == RMean(xb)
        B == RMul(Rat(n, m - 1),
                  RSumSeq([w \in 1..m |-> RSq(RSub(xbb, xb[w]))]))
        var_x == IF W.kind = "nan" THEN FNaN
                 ELSE FNum(RAdd(RMul(Rat(n - 1, n), W.val), RMul(Rat(1, n), B)))
    IN  FDiv(var_x, W)

\* The chain of parameter i with no iteration dropped.
WholeChain(sample, i) ==
    [w \in 1..Len(sample) |->
        [k \in 1..Len(sample[1]) |-> sample[w][k][i]]]

\* The chain of parameter i kept after dropping the first n_iterations / 2
\* iterations (Python 2 integer division) of every walker.
KeptChain(sample, i) ==
    LET n_iterations == Len(sample[1])
        n_burn_ins == n_iterations \div 2
    IN  [w \in 1..Len(sample) |->
            [k \in 1..(n_iterations - n_burn_ins) |-> sample[w][n_burn_ins + k][i]]]

multi_parameter_gr_stat(sample) ==
    LET n_params == Len(sample[1][1])
    IN  [i \in 1..n_params |-> single_parameter_gr_stat(KeptChain(sample, i))]

\* gr_limit = 1.2, squared (R_hat is represented by its square).
gr_limit_sq == <<36, 25>>

\* gr_test with the comparison reversed.
gr_test_reversed(sample) ==
    FGt(FNum(gr_limit_sq), NpMax(multi_parameter_gr_stat(sample)))

\* gr_test: True means "keep burning in".
gr_test(sample) == FGt(NpMax(multi_parameter_gr_stat(sample)), FNum(gr_limit_sq))

(***************************************************************************)
(* The MCMC driver: configuration.  The notebook sets nwalkers = 100,      *)
(* ninit = 100 and nsteps = 1000; the model runs the same driver with      *)
(* scaled-down values (nsteps # ninit so that a burn-in segment and the    *)
(* production segment are told apart).                                     *)
(***************************************************************************)
nwalkers == 2
ninit == 2
nsteps == 3

\* The burn-in loop has no bound in the code: the model stops exploring
\* after MaxEpochs burn-in epochs.
MaxEpochs == 3

Walkers == 1..nwalkers

\* Hyperparameter vectors <<H0, Om0>> the ensemble sampler visits (every one
\* inside the admissible box: the initial positions pass param_check and a
\* walker only moves to a proposal that lnhyperposterior accepts).
Positions == {<<600, 300>>, <<700, 400>>}

\* Every chain segment run_mcmc can produce in n_samps steps: at each step a
\* walker stays (proposal rejected) or moves (proposal accepted).
Segments(n_samps) == [Walkers -> [1..n_samps -> Positions]]

VARIABLES
    pc,                   \* position in run_MCMC
    ivals,                \* the argument of run_MCMC
    burn_ins,             \* run_MCMC local
    burning_in,           \* run_MCMC local
    vals,                 \* run_MCMC local: start positions of the next run
    full_chain,           \* run_MCMC local: the cumulative chain
    sampler_chain,        \* sampler.chain of the EnsembleSampler
    run_start,            \* the positions the last run_mcmc call started from
    burn_in_mcmc_outputs, \* run_MCMC local: outputs of the last burn-in epoch
    mcmc_outputs,         \* run_MCMC local: outputs of the production run
    mcmc_files,           \* data/mcmc<k>.hkl: epoch index -> dumped outputs
    full_chain_file,      \* data/full_chain.hkl: <<>> or <<dumped chain>>
    gr_last,              \* the R_hat vector the last gr_test computed (printed)
    n_production          \* number of production runs started so far

mcmcVars == <<pc, ivals, burn_ins, burning_in, vals, full_chain, sampler_chain,
              run_start, burn_in_mcmc_outputs, mcmc_outputs, mcmc_files,
              full_chain_file, gr_last, n_production>>

VARIABLES
    gr_chain,             \* the argument of single_parameter_gr_stat
    gr_stat               \* <<>> or <<R_hat^2 the call returned>>

grVars == <<gr_chain, gr_stat>>

VARIABLES
    init_pc,              \* position in the cell that builds init_positions
    init_positions,       \* the list of accepted draws
    pair,                 \* the last draw, <<>> before the first
    n_draws               \* number of draws made so far

initVars == <<init_pc, init_positions, pair, n_draws>>

VARIABLES
    arr,                  \* the array a caller passes to safe_log or reg_vals
    floored               \* the last call of one of the two: what was passed,
                          \* what came back, and whether it is the same object

floorVars == <<arr, floored>>

VARIABLES
    thread_pc,            \* per sampler thread: position in lnhyperposterior
    thread_h,             \* per thread: the walker position being evaluated
    thread_new_term,      \* per thread: what lnhyperlikelihood gave it
    thread_summed,        \* per thread: what lnposterior gave it
    thread_ret,           \* per thread: what lnhyperposterior returned
    interleaved           \* per thread: another thread ran during its call

threadVars == <<thread_pc, thread_h, thread_new_term, thread_summed,
                thread_ret, interleaved>>

auxVars == <<initVars, floorVars, threadVars>>

\* sampler.reset(): the stored chain is emptied.
SamplerReset(chain) == [w \in Walkers |-> <<>>]

\* sampler.run_mcmc(ivals, n_samps): the steps taken are appended to the
\* stored chain.
RunMcmc(chain, seg) == [w \in Walkers |-> chain[w] \o seg[w]]

\* sample() without the reset: the stored chain keeps the earlier runs.
sample_no_reset(chain, seg) == RunMcmc(chain, seg)

\* sample(sampler, ivals, n_samps): sampler.chain after the call, which is
\* also mcmc_outputs['chain'].
sample(chain, seg) == RunMcmc(SamplerReset(chain), seg)

\* np.concatenate((full_chain, segment), axis=1)
Concatenate(chain, seg) == [w \in Walkers |-> chain[w] \o seg[w]]

\* np.array([item[0] for item in chain]): the first sample of each walker.
FirstSamples(chain) == [w \in Walkers |-> chain[w][1]]

\* np.array([item[-1] for item in chain])
LastSamples(chain) == [w \in Walkers |-> chain[w][Len(chain[w])]]

NoOutputs == [chain |-> [w \in Walkers |-> <<>>]]

MCMCInit ==
    /\ pc = "start"
    /\ ivals \in [Walkers -> Positions]
    /\ burn_ins = 0
    /\ burning_in = FALSE
    /\ vals = ivals
    /\ full_chain = [w \in Walkers |-> <<>>]
    /\ sampler_chain = [w \in Walkers |-> <<>>]
    /\ run_start = ivals
    /\ burn_in_mcmc_outputs = NoOutputs
    /\ mcmc_outputs = NoOutputs
    /\ mcmc_files = <<>>
    /\ full_chain_file = <<>>
    /\ gr_last = <<>>
    /\ n_production = 0

\* lines 574-578: the sampler is built and the locals are initialised.
Setup ==
    /\ pc = "start"
    /\ burn_ins' = 0
    /\ burning_in' = TRUE
    /\ vals' = ivals
    /\ full_chain' = [w \in Walkers |-> <<ivals[w]>>]
    /\ sampler_chain' = [w \in Walkers |-> <<>>]
    /\ pc' = "while"
    /\ UNCHANGED <<ivals, run_start, burn_in_mcmc_outputs, mcmc_outputs,
                   mcmc_files, full_chain_file, gr_last, n_production>>
    /\ UNCHANGED <<evalVars, grVars, auxVars>>

\* lines 579-581: the loop test passes and one burn-in epoch is sampled.
BurnInSample ==
    /\ pc = "while"
    /\ burning_in
    /\ burn_ins < MaxEpochs
    /\ \E seg \in Segments(ninit) :
          /\ sampler_chain' = sample(sampler_chain, seg)
          /\ burn_in_mcmc_outputs' = [chain |-> sampler_chain']
    /\ run_start' = vals
    /\ pc' = "dump"
    /\ UNCHANGED <<ivals, burn_ins, burning_in, vals, full_chain, mcmc_outputs,
                   mcmc_files, full_chain_file, gr_last, n_production>>
    /\ UNCHANGED <<evalVars, grVars, auxVars>>

\* The checkpoint written to one file data/mcmc.hkl (index 0) whatever the
\* epoch.
BurnInDumpOneFile ==
    /\ pc = "dump"
    /\ mcmc_files' = [k \in (DOMAIN mcmc_files) \cup {0} |->
                         burn_in_mcmc_outputs]
    /\ pc' = "append"
    /\ UNCHANGED <<ivals, burn_ins, burning_in, vals, full_chain, sampler_chain,
                   run_start, burn_in_mcmc_outputs, mcmc_outputs,
                   full_chain_file, gr_last, n_production>>
    /\ UNCHANGED <<evalVars, grVars, auxVars>>

\* lines 583-585: the epoch's outputs are written to data/mcmc<burn_ins>.hkl
\* (progress_plotter reads the file back and only draws).
BurnInDump ==
    /\ pc = "dump"
    /\ mcmc_files' = [k \in (DOMAIN mcmc_files) \cup {burn_ins} |->
                         IF k = burn_ins THEN burn_in_mcmc_outputs
                         ELSE mcmc_files[k]]
    /\ pc' = "append"
    /\ UNCHANGED <<ivals, burn_ins, burning_in, vals, full_chain, sampler_chain,
                   run_start, burn_in_mcmc_outputs, mcmc_outputs,
                   full_chain_file, gr_last, n_production>>
    /\ UNCHANGED <<evalVars, grVars, auxVars>>

\* line 586
BurnInAppend ==
    /\ pc = "append"
    /\ full_chain' = Concatenate(full_chain, burn_in_mcmc_outputs.chain)
    /\ pc' = "test"
    /\ UNCHANGED <<ivals, burn_ins, burning_in, vals, sampler_chain, run_start,
                   burn_in_mcmc_outputs, mcmc_outputs, mcmc_files,
                   full_chain_file, gr_last, n_production>>
    /\ UNCHANGED <<evalVars, grVars, auxVars>>

\* line 587
BurnInTest ==
    /\ pc = "test"
    /\ gr_last' = multi_parameter_gr_stat(full_chain)
    /\ burning_in' = gr_test(full_chain)
    /\ pc' = "next"
    /\ UNCHANGED <<ivals, burn_ins, vals, full_chain, sampler_chain, run_start,
                   burn_in_mcmc_outputs, mcmc_outputs, mcmc_files,
                   full_chain_file, n_production>>
    /\ UNCHANGED <<evalVars, grVars, auxVars>>

\* lines 588-589
BurnInNext ==
    /\ pc = "next"
    /\ vals' = LastSamples(burn_in_mcmc_outputs.chain)
    /\ burn_ins' = burn_ins + 1
    /\ pc' = "while"
    /\ UNCHANGED <<ivals, burning_in, full_chain, sampler_chain, run_start,
                   burn_in_mcmc_outputs, mcmc_outputs, mcmc_files,
                   full_chain_file, gr_last, n_production>>
    /\ UNCHANGED <<evalVars, grVars, auxVars>>

\* lines 579, 590: the loop test fails and the production run is sampled.
ProductionSample ==
    /\ pc = "while"
    /\ ~burning_in
    /\ \E seg \in Segments(nsteps) :
          /\ sampler_chain' = sample(sampler_chain, seg)
          /\ mcmc_outputs' = [chain |-> sampler_chain']
    /\ run_start' = vals
    /\ n_production' = n_production + 1
    /\ pc' = "append_production"
    /\ UNCHANGED <<ivals, burn_ins, burning_in, vals, full_chain,
                   burn_in_mcmc_outputs, mcmc_files, full_chain_file, gr_last>>
    /\ UNCHANGED <<evalVars, grVars, auxVars>>

\* line 591
ProductionAppend ==
    /\ pc = "append_production"
    /\ full_chain' = Concatenate(full_chain, mcmc_outputs.chain)
    /\ pc' = "dump_full"
    /\ UNCHANGED <<ivals, burn_ins, burning_in, vals, sampler_chain, run_start,
                   burn_in_mcmc_outputs, mcmc_outputs, mcmc_files,
                   full_chain_file, gr_last, n_production>>
    /\ UNCHANGED <<evalVars, grVars, auxVars>>

\* lines 592-594: the full chain is written and returned.
DumpFullAndReturn ==
    /\ pc = "dump_full"
    /\ full_chain_file' = <<full_chain>>
    /\ pc' = "done"
    /\ UNCHANGED <<ivals, burn_ins, burning_in, vals, full_chain, sampler_chain,
                   run_start, burn_in_mcmc_outputs, mcmc_outputs, mcmc_files,
                   gr_last, n_production>>
    /\ UNCHANGED <<evalVars, grVars, auxVars>>

MCMCNext ==
    \/ Setup
    \/ BurnInSample
    \/ BurnInDump
    \/ BurnInAppend
    \/ BurnInTest
    \/ BurnInNext
    \/ ProductionSample
    \/ ProductionAppend
    \/ DumpFullAndReturn

(***************************************************************************)
(* Evaluations of the log-probability functions on a loaded catalog.       *)
(***************************************************************************)
\* Grids with strictly increasing edges: uniform, non-uniform in z,
\* non-uniform in mu, and with n_mus # n_zs.
UniformGrid == [z |-> <<0, 2, 4>>, mu |-> <<0, 2, 4>>]
Grids ==
    { UniformGrid,
      [z |-> <<0, 1, 4>>, mu |-> <<0, 2, 4>>],
      [z |-> <<0, 2, 4>>, mu |-> <<0, 1, 4>>],
      [z |-> <<0, 2, 4>>, mu |-> <<0, 1, 2, 4>>] }

\* Two catalogs of two supernovae each; the second has cells below the
\* floor of reg_vals.
Supernovae == {1, 2}

InterimPosterior(catalog, o, t, z, m) ==
    IF catalog = "peaked"
    THEN NpLog(IF m = ((o + z) % 2) + 1 THEN ROne ELSE Rat(1, 4))
    ELSE NpLog(IF (o + t + z + m) % 2 = 0 THEN Rat(1, 2) ELSE Rat(1, 256))

\* The data sets read from data/data.hkl: the "peaked" catalog on every
\* grid, the "sparse" catalog on the uniform grid.
Datasets ==
    { [grid |-> g, catalog |-> "peaked"] : g \in Grids }
        \cup { [grid |-> UniformGrid, catalog |-> "sparse"] }

\* Hyperparameter vectors <<H0, Om0>>: inside the box, on each bound, and
\* beyond each bound.
H0s == {400, 500, 600, 900, 950}
Om0s == {-100, 0, 100, 300, 400, 1000, 1100}
CheckedParams == {<<h, o>> : h \in H0s, o \in Om0s}

\* The vectors the hyperlikelihood is evaluated at: three inside the box
\* (the predicted distance moduli fall inside, below and above the mu
\* grid), one beyond each bound, one beyond two bounds, and two on a bound.
LikelihoodParams ==
    { <<600, 300>>, <<600, 400>>, <<600, 100>>,
      <<400, 300>>, <<950, 300>>, <<600, -100>>, <<600, 1100>>,
      <<400, 1100>>, <<500, 300>>, <<600, 1000>> }

\* Distance moduli: below the mu grid, on its lowest edge, on or between
\* later lower edges, and above the grid.
MuValues == {RInt(-1), RInt(0), RInt(2), RInt(5)}

\* The vectors the posterior is evaluated at: the three inside the box and
\* one outside.
HyperParams == {<<600, 300>>, <<600, 400>>, <<600, 100>>, <<600, 1100>>}

NoCall == [fn |-> "none", arg |-> <<>>, out |-> Raised("none", {})]

\* The module-level state after the notebook's cells up to line 485 ran on
\* the catalog read from data/data.hkl.
Loaded(grid, catalog) ==
    /\ z_bins = grid.z
    /\ mu_bins = grid.mu
    /\ interim_ln_prior =
          Array3([t \in 1..n_types |-> [z \in 1..(Len(grid.z) - 1) |->
              [m \in 1..(Len(grid.mu) - 1) |-> NpLog(Rat(1, 2))]]])
    /\ ln_selection_function =
          Array3([t \in 1..n_types |-> [z \in 1..(Len(grid.z) - 1) |->
              [m \in 1..(Len(grid.mu) - 1) |-> NpLog(ROne)]]])
    /\ lninterimposteriors =
          Array([o \in Supernovae |->
              Array3([t \in 1..n_types |-> [z \in 1..(Len(grid.z) - 1) |->
                  [m \in 1..(Len(grid.mu) - 1) |->
                      InterimPosterior(catalog, o, t, z, m)]]])])
    /\ flat_lnhyperlikelihood = FlatOf(interim_ln_prior)
    /\ const_term = ConstTermOf(lninterimposteriors, interim_ln_prior,
                                ln_selection_function)
    /\ ret = NoCall
    /\ remembered = [call |-> NoCall, later |-> 0]

\* The sampler threads of EnsembleSampler(..., threads=nthreads) that are
\* followed.
Threads == {1, 2}

NoOutcome == Raised("none", {})

\* run_MCMC has not been called.
MCMCIdle ==
    /\ pc = "start"
    /\ ivals = [w \in Walkers |-> <<600, 300>>]
    /\ burn_ins = 0
    /\ burning_in = FALSE
    /\ vals = ivals
    /\ full_chain = [w \in Walkers |-> <<>>]
    /\ sampler_chain = [w \in Walkers |-> <<>>]
    /\ run_start = ivals
    /\ burn_in_mcmc_outputs = NoOutputs
    /\ mcmc_outputs = NoOutputs
    /\ mcmc_files = <<>>
    /\ full_chain_file = <<>>
    /\ gr_last = <<>>
    /\ n_production = 0

\* single_parameter_gr_stat has not been called.
GRIdle == gr_chain = <<>> /\ gr_stat = <<>>

\* The cell of lines 623-639 has run: the accepted draws are the argument
\* run_MCMC was called with.
InitLoopDone ==
    /\ init_pc = "run_MCMC"
    /\ init_positions = [w \in Walkers |-> ivals[w]]
    /\ pair = ivals[nwalkers]
    /\ n_draws = nwalkers

\* Neither safe_log nor reg_vals is being followed.
FloorIdle == arr = <<>> /\ floored = <<>>

\* No sampler thread is evaluating lnhyperposterior.
ThreadsIdle ==
    /\ thread_pc = [t \in Threads |-> "idle"]
    /\ thread_h = [t \in Threads |-> <<>>]
    /\ thread_new_term = [t \in Threads |-> NoOutcome]
    /\ thread_summed = [t \in Threads |-> NoOutcome]
    /\ thread_ret = [t \in Threads |-> NoOutcome]
    /\ interleaved = [t \in Threads |-> FALSE]

\* The state of the variables of the other cells while one cell is followed.
AuxIdle == InitLoopDone /\ FloorIdle /\ ThreadsIdle

EvalInit ==
    /\ \E d \in Datasets : Loaded(d.grid, d.catalog)
    /\ MCMCIdle
    /\ GRIdle
    /\ AuxIdle

\* The calls that follow a remembered call of lnposterior are counted:
\* none, one, or two and more.
Later == IF remembered.call.fn = "none" THEN remembered
         ELSE [remembered EXCEPT !.later = IF @ = 0 THEN 1 ELSE 2]

CallParamCheck ==
    \E h \in CheckedParams :
        /\ ret' = [fn |-> "param_check", arg |-> h,
                   out |-> Returned(param_check(h), {})]
        /\ remembered' = Later
        /\ UNCHANGED <<z_bins, mu_bins, lninterimposteriors, interim_ln_prior,
                       ln_selection_function, flat_lnhyperlikelihood,
                       const_term>>
        /\ UNCHANGED <<mcmcVars, grVars, auxVars>>

CallLnHyperlikelihood ==
    \E h \in LikelihoodParams :
        /\ ret' = [fn |-> "lnhyperlikelihood", arg |-> h,
                   out |-> lnhyperlikelihood(h)]
        /\ remembered' = Later
        /\ UNCHANGED <<z_bins, mu_bins, lninterimposteriors, interim_ln_prior,
                       ln_selection_function, flat_lnhyperlikelihood,
                       const_term>>
        /\ UNCHANGED <<mcmcVars, grVars, auxVars>>

\* A call of mu_binner on one distance modulus per redshift bin.
CallMuBinner ==
    \E mus \in [1..n_zs -> MuValues] :
        /\ ret' = [fn |-> "mu_binner", arg |-> mus,
                   out |-> Returned(mu_binner(mus), {})]
        /\ remembered' = Later
        /\ UNCHANGED <<z_bins, mu_bins, lninterimposteriors, interim_ln_prior,
                       ln_selection_function, flat_lnhyperlikelihood,
                       const_term>>
        /\ UNCHANGED <<mcmcVars, grVars, auxVars>>

\* A call of lnposterior; the call is remembered, or an earlier remembered
\* call is kept.
CallLnPosterior ==
    \E h \in HyperParams :
        /\ ret' = [fn |-> "lnposterior", arg |-> h, out |-> lnposterior(h)]
        /\ const_term' = lnposterior_effect(h)
        /\ remembered' \in {Later, [call |-> ret', later |-> 0]}
        /\ UNCHANGED <<z_bins, mu_bins, lninterimposteriors, interim_ln_prior,
                       ln_selection_function, flat_lnhyperlikelihood>>
        /\ UNCHANGED <<mcmcVars, grVars, auxVars>>

CallLnHyperposterior ==
    \E h \in HyperParams :
        /\ ret' = [fn |-> "lnhyperposterior", arg |-> h,
                   out |-> lnhyperposterior(h)]
        /\ const_term' = lnposterior_effect(h)
        /\ remembered' = Later
        /\ UNCHANGED <<z_bins, mu_bins, lninterimposteriors, interim_ln_prior,
                       ln_selection_function, flat_lnhyperlikelihood>>
        /\ UNCHANGED <<mcmcVars, grVars, auxVars>>

EvalNext ==
    \/ CallParamCheck
    \/ CallLnHyperlikelihood
    \/ CallMuBinner
    \/ CallLnPosterior
    \/ CallLnHyperposterior

(***************************************************************************)
(* Evaluations of single_parameter_gr_stat on a chain of one parameter.    *)
(***************************************************************************)
\* The chains: m walkers by n kept iterations of parameter values.
GRWalkers == {2, 3}
GRIterations == {1, 2, 3}
GRValues == {600, 700}
GRChains ==
    UNION { [1..m -> [1..n -> GRValues]] : m \in GRWalkers, n \in GRIterations }

GRInit ==
    /\ gr_chain \in GRChains
    /\ gr_stat = <<>>
    /\ Loaded(UniformGrid, "peaked")
    /\ MCMCIdle
    /\ AuxIdle

CallSingleParameterGrStat ==
    /\ gr_stat = <<>>
    /\ gr_stat' = <<single_parameter_gr_stat(gr_chain)>>
    /\ UNCHANGED <<gr_chain, mcmcVars, evalVars, auxVars>>

GRNext == CallSingleParameterGrStat

(***************************************************************************)
(* The cell that draws the initial positions and calls run_MCMC            *)
(* (lines 623-639).                                                        *)
(***************************************************************************)
\* prior_cosmo_dist.rvs()[0]: one <<H0, Om0>> pair from the two Gaussians,
\* which are not truncated: inside the box, on a bound, and beyond a bound
\* in either parameter.
PriorDraws ==
    { <<600, 300>>, <<700, 400>>, <<800, 200>>,
      <<500, 300>>, <<950, 300>>, <<700, -100>>, <<700, 1000>> }

\* The draws followed.
MaxDraws == 5

InitLoopInit ==
    /\ init_pc = "while"
    /\ init_positions = <<>>
    /\ pair = <<>>
    /\ n_draws = 0
    /\ Loaded(UniformGrid, "peaked")
    /\ MCMCIdle
    /\ GRIdle
    /\ FloorIdle
    /\ ThreadsIdle

\* One pass of the loop appending the draw without asking param_check.
InitDrawUnchecked ==
    /\ init_pc = "while"
    /\ Len(init_positions) < nwalkers
    /\ n_draws < MaxDraws
    /\ \E drawn \in PriorDraws :
          /\ pair' = drawn
          /\ init_positions' = Append(init_positions, drawn)
    /\ n_draws' = n_draws + 1
    /\ UNCHANGED <<init_pc, mcmcVars, evalVars, grVars, floorVars, threadVars>>

\* lines 624-627: one pass of the loop.
InitDraw ==
    /\ init_pc = "while"
    /\ Len(init_positions) < nwalkers
    /\ n_draws < MaxDraws
    /\ \E drawn \in PriorDraws :
          /\ pair' = drawn
          /\ init_positions' = IF param_check(drawn)
                                THEN Append(init_positions, drawn)
                                ELSE init_positions
    /\ n_draws' = n_draws + 1
    /\ UNCHANGED <<init_pc, mcmcVars, evalVars, grVars, floorVars, threadVars>>

\* lines 624, 628, 639: the loop test fails and run_MCMC(init_positions) is
\* called.
InitCallRunMCMC ==
    /\ init_pc = "while"
    /\ ~(Len(init_positions) < nwalkers)
    /\ init_pc' = "run_MCMC"
    /\ ivals' = [w \in 1..Len(init_positions) |-> init_positions[w]]
    /\ UNCHANGED <<init_positions, pair, n_draws>>
    /\ UNCHANGED <<pc, burn_ins, burning_in, vals, full_chain, sampler_chain,
                   run_start, burn_in_mcmc_outputs, mcmc_outputs, mcmc_files,
                   full_chain_file, gr_last, n_production>>
    /\ UNCHANGED <<evalVars, grVars, floorVars, threadVars>>

InitLoopNext ==
    \/ InitDraw
    \/ InitCallRunMCMC

(***************************************************************************)
(* Calls of safe_log and reg_vals on a caller's array (lines 159-167).     *)
(* An ndarray is a record of its shape and its elements in C order.        *)
(***************************************************************************)
Shapes == {<<1>>, <<2>>, <<1, 2>>, <<2, 1>>, <<3>>}

RECURSIVE Size(_)
Size(shape) == IF shape = <<>> THEN 1 ELSE Head(shape) * Size(Tail(shape))

\* Arguments of safe_log: densities below, at and above epsilon.
LinearValues == {RZero, Rat(1, 32), epsilon, ROne}

\* Arguments of reg_vals: log-densities below, at and above log_epsilon.
LogValues == {NpLog(Rat(1, 128)), log_epsilon, NpLog(Rat(1, 2)), NpLog(ROne)}

\* The arrays of a shape of Shapes over the values; scale tells densities
\* ("linear") from log-densities ("log").
NdArrays(scale, values) ==
    UNION { { [scale |-> scale, shape |-> sh, flat |-> f] :
                f \in [1..Size(sh) -> values] } : sh \in Shapes }

\* safe_log(arr): shape = np.shape(arr); flat = arr.flatten() (a copy);
\* np.log(np.array([max(a, threshold) for a in flat])).reshape(shape).
\* The outcome is the array returned, the caller's array afterwards, and
\* whether the two are one object.
safe_log_call(a, threshold) ==
    LET shape == a.shape
        flat == a.flat
        logged == [scale |-> "log", shape |-> shape,
                   flat |-> [i \in DOMAIN flat |-> safe_log(flat[i], threshold)]]
    IN  [out |-> logged, after |-> a, same_object |-> FALSE]

\* reg_vals(arr): arr[arr < threshold] = threshold writes into the array
\* passed; return arr returns that array.
reg_vals_call(a, threshold) ==
    LET written == [a EXCEPT !.flat =
                       [i \in DOMAIN a.flat |-> reg_vals(a.flat[i], threshold)]]
    IN  [out |-> written, after |-> written, same_object |-> TRUE]

FloorInit ==
    /\ \/ arr \in NdArrays("linear", LinearValues)
       \/ arr \in NdArrays("log", LogValues)
    /\ floored = <<>>
    /\ Loaded(UniformGrid, "peaked")
    /\ MCMCIdle
    /\ GRIdle
    /\ InitLoopDone
    /\ ThreadsIdle

CallSafeLog ==
    /\ arr.scale = "linear"
    /\ LET call == safe_log_call(arr, epsilon)
       IN  /\ floored' = [fn |-> "safe_log", passed |-> arr, out |-> call.out,
                          same_object |-> call.same_object]
           /\ arr' = call.after
    /\ UNCHANGED <<mcmcVars, evalVars, grVars, initVars, threadVars>>

CallRegVals ==
    /\ arr.scale = "log"
    /\ LET call == reg_vals_call(arr, log_epsilon)
       IN  /\ floored' = [fn |-> "reg_vals", passed |-> arr, out |-> call.out,
                          same_object |-> call.same_object]
           /\ arr' = call.after
    /\ UNCHANGED <<mcmcVars, evalVars, grVars, initVars, threadVars>>

FloorNext ==
    \/ CallSafeLog
    \/ CallRegVals

(***************************************************************************)
(* Sampler threads evaluating lnhyperposterior for different walkers at    *)
(* the same time (line 574: threads=nthreads).  A thread's call proceeds   *)
(* in the steps at which it reads the module-level arrays.                 *)
(***************************************************************************)
\* lines 489-494 given the outcome of line 488.
lnposterior_given(hl) ==
    IF hl.kind # "ok" THEN Raised(hl.kind, hl.calls)
    ELSE LET in_sum == Array([o \in 1..n_SNe |->
                                 safe_log(InLog(hl.val, o), epsilon)])
         IN  Returned(LSumSeq(in_sum), hl.calls)

\* line 498 given the outcome of lnposterior.
lnhyperposterior_given(hyperparameters, post) ==
    IF post.kind # "ok" THEN post
    ELSE Returned(PyMax(LAdd(lnprior(hyperparameters), post.val),
                        log_epsilon),
                  post.calls)

\* The threads other than t that are inside a call are marked.
Interleave(t) ==
    [u \in Threads |->
        IF u # t /\ thread_pc[u] \notin {"idle", "done"}
        THEN TRUE ELSE interleaved[u]]

ThreadsInit ==
    /\ \E d \in Datasets : Loaded(d.grid, d.catalog)
    /\ MCMCIdle
    /\ GRIdle
    /\ InitLoopDone
    /\ FloorIdle
    /\ ThreadsIdle

\* The pool hands thread t a walker position: lnhyperposterior(h) is called.
ThreadCall(t) ==
    /\ thread_pc[t] = "idle"
    /\ \E h \in HyperParams : thread_h' = [thread_h EXCEPT ![t] = h]
    /\ thread_pc' = [thread_pc EXCEPT ![t] = "lnhyperlikelihood"]
    /\ interleaved' = Interleave(t)
    /\ UNCHANGED <<thread_new_term, thread_summed, thread_ret>>
    /\ UNCHANGED <<mcmcVars, evalVars, grVars, initVars, floorVars>>

\* line 488: new_term = lnhyperlikelihood(hyperparameters)
ThreadLnHyperlikelihood(t) ==
    /\ thread_pc[t] = "lnhyperlikelihood"
    /\ thread_new_term' =
          [thread_new_term EXCEPT ![t] = lnhyperlikelihood(thread_h[t])]
    /\ thread_pc' = [thread_pc EXCEPT ![t] = "lnposterior"]
    /\ interleaved' = Interleave(t)
    /\ UNCHANGED <<thread_h, thread_summed, thread_ret>>
    /\ UNCHANGED <<mcmcVars, evalVars, grVars, initVars, floorVars>>

\* lines 489-494: const_term is read, the sum is built.
ThreadLnPosterior(t) ==
    /\ thread_pc[t] = "lnposterior"
    /\ thread_summed' =
          [thread_summed EXCEPT ![t] = lnposterior_given(thread_new_term[t])]
    /\ const_term' = lnposterior_effect(thread_h[t])
    /\ thread_pc' = [thread_pc EXCEPT ![t] = "return"]
    /\ interleaved' = Interleave(t)
    /\ UNCHANGED <<thread_h, thread_new_term, thread_ret>>
    /\ UNCHANGED <<z_bins, mu_bins, lninterimposteriors, interim_ln_prior,
                   ln_selection_function, flat_lnhyperlikelihood, ret,
                   remembered>>
    /\ UNCHANGED <<mcmcVars, grVars, initVars, floorVars>>

\* line 498: max(lnprior(h) + lnposterior(h), log_epsilon) is returned.
ThreadReturn(t) ==
    /\ thread_pc[t] = "return"
    /\ thread_ret' =
          [thread_ret EXCEPT ![t] =
              lnhyperposterior_given(thread_h[t], thread_summed[t])]
    /\ thread_pc' = [thread_pc EXCEPT ![t] = "done"]
    /\ interleaved' = Interleave(t)
    /\ UNCHANGED <<thread_h, thread_new_term, thread_summed>>
    /\ UNCHANGED <<mcmcVars, evalVars, grVars, initVars, floorVars>>

ThreadsNext ==
    \E t \in Threads :
        \/ ThreadCall(t)
        \/ ThreadLnHyperlikelihood(t)
        \/ ThreadLnPosterior(t)
        \/ ThreadReturn(t)

vars == <<mcmcVars, evalVars, grVars, auxVars>>

Init == MCMCInit /\ Loaded(UniformGrid, "peaked") /\ GRIdle /\ AuxIdle

Next == MCMCNext

Spec == Init /\ [][Next]_vars

SpecEval == EvalInit /\ [][EvalNext]_vars

SpecGR == GRInit /\ [][GRNext]_vars

SpecInitLoop == InitLoopInit /\ [][InitLoopNext]_vars

SpecFloor == FloorInit /\ [][FloorNext]_vars

SpecThreads == ThreadsInit /\ [][ThreadsNext]_vars

(***************************************************************************)
(* Claims about run_MCMC (checked under Spec).                             *)
(***************************************************************************)
BurnInPcs == {"start", "while", "dump", "append", "test", "next"}
ProductionPcs == {"append_production", "dump_full", "done"}

\* The verdict of the last convergence test, read from the R_hat vector it
\* computed: converged means gr_test returned False.
LastTestConverged == gr_last # <<>> /\ ~FGt(NpMax(gr_last), FNum(gr_limit_sq))

\* C1: the phases of run_MCMC occur in the order burn-in epochs, production,
\* return.  Production is run at most once and exactly once by the time
\* run_MCMC returns; while any burn-in step is pending no production run has
\* started (so no burn-in epoch starts after production); and production has
\* started only after at least one whole burn-in epoch of ninit steps, the
\* last convergence test having returned "converged" (burning_in False).
C1_PhaseOrder ==
    /\ n_production <= 1
    /\ pc \in BurnInPcs => n_production = 0
    /\ pc \in ProductionPcs =>
          /\ n_production = 1
          /\ burn_ins >= 1
          /\ \A w \in Walkers : Len(full_chain[w]) >= 1 + ninit
          /\ ~burning_in
          /\ LastTestConverged
    /\ pc = "done" => n_production = 1

\* C1 witness: run_MCMC has returned after two burn-in epochs and production.
C1_Witness == pc = "done" /\ burn_ins = 2 /\ n_production = 1

\* C2 (as claimed): production starts only in a state where
\* max(R_hat) <= gr_limit holds for the R_hat vector of the last test.
C2_ProductionOnlyIfRhatBelowLimit ==
    pc \in ProductionPcs =>
        gr_last # <<>> /\ FLeq(NpMax(gr_last), FNum(gr_limit_sq))

\* The configured maximum number of burn-in epochs C3 speaks of.  run_MCMC
\* has no such setting; the claim is read with this value as the maximum.
EpochLimit == 2

\* C3 (as claimed): the burn-in loop is bounded by a configured maximum
\* number of epochs: once EpochLimit epochs have run, no further burn-in
\* epoch is sampled.
C3_BurnInBoundedByEpochLimit ==
    pc \in {"dump", "append", "test", "next"} => burn_ins < EpochLimit

\* Number of burn-in segments appended to full_chain so far.
EpochsAppended == burn_ins + (IF pc \in {"test", "next"} THEN 1 ELSE 0)

IsPrefix(s, t) == Len(s) <= Len(t) /\ SubSeq(t, 1, Len(s)) = s

C4_Lengths ==
    \A w \in Walkers :
        /\ pc = "start" => full_chain[w] = <<>>
        /\ pc # "start" =>
              /\ Len(full_chain[w]) =
                    1 + EpochsAppended * ninit
                      + (IF pc \in {"dump_full", "done"} THEN nsteps ELSE 0)
              /\ full_chain[w][1] = ivals[w]

C4_Step ==
    \A w \in Walkers :
        /\ IsPrefix(full_chain[w], full_chain'[w])
        /\ Len(full_chain'[w]) - Len(full_chain[w]) \in {0, 1, ninit, nsteps}
        /\ (pc = "append" /\ pc' = "test") =>
              /\ Len(full_chain'[w]) = Len(full_chain[w]) + ninit
              /\ SubSeq(full_chain'[w], Len(full_chain[w]) + 1,
                        Len(full_chain'[w])) = burn_in_mcmc_outputs.chain[w]
        /\ (pc = "append_production" /\ pc' = "dump_full") =>
              /\ Len(full_chain'[w]) = Len(full_chain[w]) + nsteps
              /\ SubSeq(full_chain'[w], Len(full_chain[w]) + 1,
                        Len(full_chain'[w])) = mcmc_outputs.chain[w]

\* C4: the cumulative chain only grows.  It holds 1 sample per walker (the
\* initial position) before the first epoch, gains exactly ninit samples per
\* walker at each burn-in append and exactly nsteps at the production
\* append (the segment being exactly the run's own samples), what was
\* appended stays as a prefix, and after K epochs and production the
\* per-walker length is 1 + K*ninit + nsteps.
C4_ChainOnlyGrows == [](C4_Lengths) /\ [][C4_Step]_vars

\* C4 witness: the chain returned after two burn-in epochs has
\* 1 + 2*ninit + nsteps samples per walker.
C4_Witness ==
    /\ pc = "done"
    /\ burn_ins = 2
    /\ \A w \in Walkers : Len(full_chain[w]) = 1 + 2 * ninit + nsteps

(***************************************************************************)
(* Claims about the log-probability functions (checked under SpecEval).    *)
(***************************************************************************)
\* The module-level arrays the log-probability functions read.
ModuleState == <<z_bins, mu_bins, lninterimposteriors, interim_ln_prior,
                 ln_selection_function, flat_lnhyperlikelihood, const_term>>

C5_Returned ==
    (ret.fn = "lnhyperlikelihood" /\ ~param_check(ret.arg)) =>
        /\ ret.out.kind = "ok"
        /\ ret.out.calls = {}
        /\ ret.out.val = flat_lnhyperlikelihood

C5_FlatKept ==
    /\ flat_lnhyperlikelihood = FlatOf(interim_ln_prior)
    /\ \A t \in 1..n_types, z \in 1..n_zs, m \in 1..n_mus :
          flat_lnhyperlikelihood[t][z][m] = NpLog(epsilon)

\* C5: for every hyperparameter vector for which param_check is false,
\* lnhyperlikelihood returns the precomputed array flat_lnhyperlikelihood,
\* without raising and without calling distmod or mu_binner; the array is
\* the same (every cell ln(epsilon)) whichever bound is violated, and no
\* evaluation changes it.
C5_OutOfBoundsFlat ==
    [](C5_Returned /\ C5_FlatKept)
        /\ [][flat_lnhyperlikelihood' = flat_lnhyperlikelihood]_vars

\* C5 witness: lnhyperlikelihood has returned for a vector beyond two bounds
\* (H0 low, Om0 high), after a call of lnposterior and further calls.
C5_Witness ==
    /\ ret.fn = "lnhyperlikelihood"
    /\ ret.arg = <<400, 1100>>
    /\ ret.out.val = flat_lnhyperlikelihood
    /\ remembered.later = 2

\* C6: for every hyperparameter vector, lnhyperposterior returns
\* max(lnprior(h) + lnposterior(h), log_epsilon) (and raises what lnposterior
\* raises when that raises): the result is never below log_epsilon, equals
\* log_epsilon whenever the sum is below it, and equals the sum otherwise.
C6_HyperposteriorFloored ==
    ret.fn = "lnhyperposterior" =>
        LET post == lnposterior(ret.arg)
            sum == LAdd(lnprior(ret.arg), post.val)
        IN  IF post.kind # "ok" THEN ret.out = post
            ELSE /\ ret.out.kind = "ok"
                 /\ ~LLt(ret.out.val, log_epsilon)
                 /\ LLt(sum, log_epsilon) => ret.out.val = log_epsilon
                 /\ ~LLt(sum, log_epsilon) => ret.out.val = sum

\* C6 witness: lnhyperposterior has returned the floor for a vector whose
\* sum lnprior + lnposterior lies below log_epsilon.
C6_Witness ==
    /\ ret.fn = "lnhyperposterior"
    /\ ret.out.kind = "ok"
    /\ ret.out.val = log_epsilon
    /\ lnposterior(ret.arg).kind = "ok"
    /\ LLt(LAdd(lnprior(ret.arg), lnposterior(ret.arg).val), log_epsilon)

C7_Value ==
    ret.fn = "param_check" =>
        LET H0 == ret.arg[1]
            Om0 == ret.arg[2]
        IN  /\ ret.out.kind = "ok"
            /\ ret.out.val \in BOOLEAN
            /\ ret.out.val <=> (min_H0 < H0 /\ H0 < max_H0
                                /\ min_Om0 < Om0 /\ Om0 < max_Om0)
            /\ (H0 <= min_H0 \/ H0 >= max_H0 \/ Om0 <= min_Om0
                \/ Om0 >= max_Om0) => ret.out.val = FALSE

C7_Pure == ret'.fn = "param_check" => UNCHANGED ModuleState

\* C7: param_check is a pure predicate over (H0, Om0): it returns true
\* exactly when min_H0 < H0 < max_H0 and min_Om0 < Om0 < max_Om0, false for
\* a point with any coordinate equal to or beyond a bound, and a call
\* modifies no module-level state.
C7_ParamCheckStrictAndPure == [](C7_Value) /\ [][C7_Pure]_vars

\* C7 witness: param_check has returned False for a point whose H0 equals
\* min_H0 while Om0 is inside its bounds.
C7_Witness ==
    /\ ret.fn = "param_check"
    /\ ret.arg = <<min_H0, 300>>
    /\ ret.out.val = FALSE

\* The sum over type, z and mu of exp(lnprob) * dz * dmu / n_types.  A cell
\* at the floor ln(epsilon) holds 2.2e-308 in the code, far below the
\* tolerance of the comparison with 1, and counts as 0.
DensitySum(lnprob) ==
    RSum3(Array3([t \in 1..n_types |-> [z \in 1..n_zs |-> [m \in 1..n_mus |->
        IF lnprob[t][z][m] = NpLog(epsilon) THEN RZero
        ELSE RDiv(RMul(RMul(NpExp(lnprob[t][z][m]), z_difs[z]), mu_difs[m]),
                  RInt(n_types))]]]))

\* C8 (as claimed): for every hyperparameter vector that passes param_check
\* and every grid with strictly increasing edges, lnhyperlikelihood returns a
\* density whose sum over type, z and mu of density * dz * dmu / n_types is 1.
C8_ReturnedDensityNormalized ==
    (ret.fn = "lnhyperlikelihood" /\ param_check(ret.arg)) =>
        /\ ret.out.kind = "ok"
        /\ DensitySum(ret.out.val) = ROne

\* C10: lnposterior is deterministic: a call with the hyperparameter vector
\* of an earlier call returns what the earlier call returned, whatever calls
\* of param_check, lnhyperlikelihood, lnposterior and lnhyperposterior were
\* made in between, and no call changes the catalog or the arrays built
\* from it.
C10_LnposteriorDeterministic ==
    []((ret.fn = "lnposterior" /\ remembered.call.fn = "lnposterior"
        /\ ret.arg = remembered.call.arg) => ret.out = remembered.call.out)
        /\ [][UNCHANGED ModuleState]_vars

\* C10 witness: lnposterior has returned a value for an in-bounds vector for
\* which an earlier call is remembered, other calls lying in between.
C10_Witness ==
    /\ ret.fn = "lnposterior"
    /\ remembered.call.fn = "lnposterior"
    /\ remembered.later = 2
    /\ ret.arg = remembered.call.arg
    /\ param_check(ret.arg)
    /\ ret.out.kind = "ok"

(***************************************************************************)
(* Claims about single_parameter_gr_stat (checked under SpecGR).           *)
(***************************************************************************)
IdenticalChains == \A w \in 1..Len(gr_chain) : gr_chain[w] = gr_chain[1]
ConstantChain == \A k \in 1..Len(gr_chain[1]) : gr_chain[1][k] = gr_chain[1][1]
KeptIterations == Len(gr_chain[1])

\* C9 (as claimed): for m >= 2 identical chains of n kept iterations,
\* single_parameter_gr_stat returns R_hat with R_hat^2 = (n-1)/n.
C9_IdenticalChainsRhat ==
    (gr_stat # <<>> /\ Len(gr_chain) >= 2 /\ IdenticalChains) =>
        gr_stat[1] = FNum(Rat(KeptIterations - 1, KeptIterations))

\* C9 (amended): for m >= 2 identical chains of n >= 2 kept iterations whose
\* values are not all equal (W > 0), single_parameter_gr_stat returns R_hat
\* with R_hat^2 = (n-1)/n, which is below 1; for identical chains of one
\* iteration or of all-equal values (W = 0/0 or W = 0) it returns nan.
C9_IdenticalVaryingChainsRhat ==
    (gr_stat # <<>> /\ Len(gr_chain) >= 2 /\ IdenticalChains) =>
        IF KeptIterations >= 2 /\ ~ConstantChain
        THEN /\ gr_stat[1] = FNum(Rat(KeptIterations - 1, KeptIterations))
             /\ RLt(gr_stat[1].val, ROne)
        ELSE gr_stat[1] = FNaN

\* C9 witness: the statistic of three identical chains of three iterations
\* whose values differ.
C9_Witness ==
    /\ gr_stat # <<>>
    /\ Len(gr_chain) = 3
    /\ IdenticalChains
    /\ KeptIterations = 3
    /\ ~ConstantChain
    /\ gr_stat[1] = FNum(<<2, 3>>)

(***************************************************************************)
(* Further claims about run_MCMC (checked under Spec).                     *)
(***************************************************************************)
\* The segment the last completed burn-in epoch produced, as checkpointed.
PrecedingSegment == mcmc_files[burn_ins - 1].chain

\* The final sample of every walker of a chain.
FinalOf(chain) == [w \in DOMAIN chain |-> chain[w][Len(chain[w])]]

C13_BurnInStart ==
    pc = "dump" =>
        /\ run_start = FinalOf(full_chain)
        /\ burn_ins = 0 => run_start = ivals
        /\ burn_ins > 0 => run_start = FinalOf(PrecedingSegment)

C13_ProductionStart ==
    pc = "append_production" =>
        /\ run_start = FinalOf(full_chain)
        /\ run_start = FinalOf(PrecedingSegment)
        /\ run_start = FinalOf(burn_in_mcmc_outputs.chain)

\* C13: every sampler run of run_MCMC starts from the last sample of each
\* walker in the cumulative chain: the first burn-in epoch from the initial
\* positions, every later epoch from the last samples of the preceding
\* epoch's segment, and production from the last samples of the final
\* burn-in epoch (the epoch at which convergence was declared).
C13_RunsStartFromLastSamples == C13_BurnInStart /\ C13_ProductionStart

\* C13 witness: production has been sampled after two burn-in epochs, from
\* positions that are not the initial ones.
C13_Witness ==
    /\ pc = "append_production"
    /\ burn_ins = 2
    /\ run_start = FinalOf(full_chain)
    /\ run_start # ivals

C14_Checkpoints ==
    /\ DOMAIN mcmc_files =
          0..(burn_ins - (IF pc \in {"append", "test", "next"} THEN 0 ELSE 1))
    /\ Cardinality(DOMAIN mcmc_files) >= EpochsAppended
    /\ pc \in {"append", "test", "next"} =>
          mcmc_files[burn_ins] = burn_in_mcmc_outputs
    /\ pc = "append" => EpochsAppended = burn_ins
    /\ full_chain_file # <<>> =>
          /\ pc = "done"
          /\ full_chain_file = <<full_chain>>
          /\ \A w \in Walkers :
                SubSeq(full_chain[w], Len(full_chain[w]) - nsteps + 1,
                       Len(full_chain[w])) = mcmc_outputs.chain[w]

C14_Step ==
    /\ mcmc_files' # mcmc_files =>
          /\ pc = "dump" /\ pc' = "append"
          /\ burn_ins \notin DOMAIN mcmc_files
          /\ DOMAIN mcmc_files' = DOMAIN mcmc_files \cup {burn_ins}
          /\ \A k \in DOMAIN mcmc_files : mcmc_files'[k] = mcmc_files[k]
          /\ full_chain' = full_chain /\ gr_last' = gr_last
    /\ (pc = "dump") => mcmc_files' # mcmc_files
    /\ full_chain_file' # full_chain_file =>
          /\ full_chain_file = <<>>
          /\ pc = "dump_full" /\ pc' = "done"

\* C14: each burn-in epoch's outputs are persisted, under the epoch index,
\* before the segment is appended to the cumulative chain and before the
\* convergence test; the indices written are 0, 1, 2, ... with no gap and
\* none written twice, so the number of checkpoints is at least the number
\* of segments appended; the full chain is persisted exactly once, after the
\* production segment has been appended.
C14_CheckpointOrder == [](C14_Checkpoints) /\ [][C14_Step]_vars

\* C14 witness: run_MCMC has returned with the checkpoints of two epochs and
\* the full chain written.
C14_Witness ==
    /\ pc = "done"
    /\ DOMAIN mcmc_files = {0, 1}
    /\ mcmc_files[0] # mcmc_files[1]
    /\ full_chain_file = <<full_chain>>

\* The samples of parameter i that follow the first floor(n_iterations / 2)
\* iterations of every walker.
SecondHalf(chain, i) ==
    [w \in 1..Len(chain) |->
        [k \in 1..(Len(chain[w]) - (Len(chain[w]) \div 2)) |->
            chain[w][(Len(chain[w]) \div 2) + k][i]]]

\* The chain with every sample of the dropped half replaced by v.
DroppedReplaced(chain, v) ==
    [w \in DOMAIN chain |->
        [k \in DOMAIN chain[w] |->
            IF k <= Len(chain[w]) \div 2 THEN v ELSE chain[w][k]]]

\* C16: multi_parameter_gr_stat returns one R_hat per parameter, computed
\* from the iterations after the first floor(n_iterations / 2) only: changing
\* any sample of the dropped half (one of them: the chain the statistic is
\* computed from stays the same; all of them: the statistic stays the same)
\* does not change the result; and run_MCMC passes it the whole cumulative
\* chain (initial positions and all epochs so far).
C16_SecondHalfOfWholeChain ==
    pc = "next" =>
        /\ \A w \in Walkers : Len(full_chain[w]) = 1 + (burn_ins + 1) * ninit
        /\ \A w \in Walkers : full_chain[w][1] = ivals[w]
        /\ Len(gr_last) = Len(ivals[1])
        /\ \A i \in 1..Len(gr_last) :
              gr_last[i] = single_parameter_gr_stat(SecondHalf(full_chain, i))
        /\ \A v \in Positions :
              multi_parameter_gr_stat(DroppedReplaced(full_chain, v)) = gr_last
        /\ \A w \in Walkers :
              \A k \in 1..(Len(full_chain[w]) \div 2) :
                 \A v \in Positions : \A i \in 1..Len(gr_last) :
                    KeptChain([full_chain EXCEPT ![w][k] = v], i) =
                        SecondHalf(full_chain, i)

\* C16 witness: the test of the second epoch has run on a chain of 5 samples
\* per walker whose dropped half (2 samples) differs between the walkers.
C16_Witness ==
    /\ pc = "next"
    /\ burn_ins = 1
    /\ full_chain[1][1] # full_chain[2][1]
    /\ gr_last[1].kind = "num"

(***************************************************************************)
(* Further claims about the evaluations (checked under SpecEval).          *)
(***************************************************************************)
\* Bin m is the bin whose lower edge mu_bins[m] is the greatest lower bin
\* edge not above mu.
GreatestLowerEdge(m, mu) ==
    /\ RLeq(RInt(mu_bins[m]), mu)
    /\ \A k \in 1..n_mus : RLeq(RInt(mu_bins[k]), mu) => mu_bins[k] <= mu_bins[m]

\* C15: for every list of distance moduli, mu_binner returns an
\* [n_types][n_z][n_mu] array that is the same for every type and whose
\* every redshift row is one-hot, the 1 standing at the bin whose lower edge
\* is the greatest lower bin edge not above the distance modulus.
C15_OneHotAtGreatestLowerEdge ==
    ret.fn = "mu_binner" =>
        LET out == ret.out.val
        IN  /\ DOMAIN out = 1..n_types
            /\ \A t \in 1..n_types :
                  /\ out[t] = out[1]
                  /\ DOMAIN out[t] = 1..n_zs
                  /\ \A z \in 1..n_zs :
                        /\ DOMAIN out[t][z] = 1..n_mus
                        /\ \A m \in 1..n_mus :
                              out[t][z][m] =
                                  IF GreatestLowerEdge(m, ret.arg[z])
                                  THEN ROne ELSE RZero
                        /\ Cardinality({m \in 1..n_mus :
                                          out[t][z][m] = ROne}) = 1

\* The part of C15 that holds: the array is the same for every type, every
\* row is one-hot, and the 1 stands at the greatest lower edge not above the
\* distance modulus whenever the distance modulus is not below the grid.
C15_OneHotOnGrid ==
    ret.fn = "mu_binner" =>
        LET out == ret.out.val
        IN  \A t \in 1..n_types : \A z \in 1..n_zs :
               /\ out[t] = out[1]
               /\ Cardinality({m \in 1..n_mus : out[t][z][m] = ROne}) = 1
               /\ \A m \in 1..n_mus : out[t][z][m] \in {ROne, RZero}
               /\ RLeq(RInt(mu_bins[1]), ret.arg[z]) =>
                     \A m \in 1..n_mus :
                        (out[t][z][m] = ROne) <=>
                            GreatestLowerEdge(m, ret.arg[z])
               /\ ~RLeq(RInt(mu_bins[1]), ret.arg[z]) =>
                     out[t][z][n_mus] = ROne

\* The objects of a set in catalog order.
RECURSIVE Ordered(_)
Ordered(S) ==
    IF S = {} THEN <<>>
    ELSE LET o == CHOOSE x \in S : \A y \in S : x <= y
         IN  <<o>> \o Ordered(S \ {o})

\* The catalog made of the objects of S, and the const_term built from it.
SubCatalog(S) == [i \in 1..Cardinality(S) |-> lninterimposteriors[Ordered(S)[i]]]
SubConstTerm(S) ==
    ConstTermOf(SubCatalog(S), interim_ln_prior, ln_selection_function)

\* One object's weighted grid sum: the sum over type, z and mu of
\* exp(reg_vals(slice + new_term)) * dmu * dz, divided by n_types.
GridSum(slice, new_term) ==
    RDiv(RSum3(Array3([t \in 1..n_types |-> [z \in 1..n_zs |->
             [m \in 1..n_mus |->
                 RMul(RMul(NpExp(reg_vals(LAdd(slice[t][z][m],
                                               new_term[t][z][m]),
                                          log_epsilon)),
                           mu_difs[m]),
                      z_difs[z])]]])),
         RInt(n_types))

\* The sum over the objects of S of safe_log of the object's grid sum.
CatalogValue(S, new_term) ==
    LET ct == SubConstTerm(S)
    IN  LSumSeq([i \in 1..Cardinality(S) |->
                    safe_log(GridSum(ct[i], new_term), epsilon)])

\* C17: lnposterior(h) is the sum over the objects of safe_log of the
\* object's weighted grid sum of exp(reg_vals(const_term +
\* lnhyperlikelihood(h))) * dmu * dz / n_types (and raises what
\* lnhyperlikelihood raises); each object's term depends on the object's own
\* slice of const_term only, so the value for the catalog is the sum of the
\* values of the two parts of any partition of its objects.
C17_SumOverObjects ==
    ret.fn = "lnposterior" =>
        LET hl == lnhyperlikelihood(ret.arg)
        IN  IF hl.kind # "ok" THEN ret.out.kind = hl.kind
            ELSE /\ ret.out.kind = "ok"
                 /\ ret.out.val =
                       LSumSeq([o \in 1..n_SNe |->
                           safe_log(GridSum(const_term[o], hl.val), epsilon)])
                 /\ \A o \in 1..n_SNe :
                       SubConstTerm({o})[1] = const_term[o]
                 /\ \A S \in SUBSET (1..n_SNe) :
                       ret.out.val =
                           LAdd(CatalogValue(S, hl.val),
                                CatalogValue((1..n_SNe) \ S, hl.val))

\* C17 witness: lnposterior has returned, for an in-bounds vector, a value to
\* which the two objects of the catalog contribute different terms.
C17_Witness ==
    /\ ret.fn = "lnposterior"
    /\ param_check(ret.arg)
    /\ ret.out.kind = "ok"
    /\ n_SNe = 2
    /\ CatalogValue({1}, lnhyperlikelihood(ret.arg).val)
          # CatalogValue({2}, lnhyperlikelihood(ret.arg).val)
    /\ ret.out.val # NpLog(ROne)

\* The array delta of lnhyperlikelihood after the division of line 438.
NormalizedDelta(hyperparameters) ==
    LET delta0 == mu_binner(Array([z \in 1..n_zs |->
                      distmod(hyperparameters, z_mids[z])]))
        norm == NormSum(delta0)
    IN  Array3([t \in 1..n_types |-> [z \in 1..n_zs |->
            [m \in 1..n_mus |-> RDiv(delta0[t][z][m], norm)]]])

\* C19: for every hyperparameter vector that passes param_check, on every
\* grid with strictly increasing edges, the sum the assert of
\* lnhyperlikelihood checks is the sum that normalised delta one line
\* earlier, so the assertion holds and the call returns a log-density,
\* raising neither AssertionError nor a shape error.
C19_AssertionNeverFails ==
    (ret.fn = "lnhyperlikelihood" /\ param_check(ret.arg)) =>
        /\ ret.out.kind \notin {"AssertionError", "ValueError"}
        /\ AssertSum(NormalizedDelta(ret.arg)) =
              [kind |-> "ok", val |-> NormSum(NormalizedDelta(ret.arg))]

(***************************************************************************)
(* Claims about the initial positions (checked under SpecInitLoop).        *)
(***************************************************************************)
C18_Handed ==
    /\ Len(init_positions) <= nwalkers
    /\ \A i \in 1..Len(init_positions) : param_check(init_positions[i])
    /\ init_pc = "run_MCMC" =>
          /\ DOMAIN ivals = 1..nwalkers
          /\ \A w \in 1..nwalkers :
                ivals[w] = init_positions[w] /\ param_check(ivals[w])

C18_Step ==
    /\ n_draws' # n_draws =>
          /\ Len(init_positions) < nwalkers
          /\ init_pc = "while"
          /\ IF param_check(pair')
             THEN init_positions' = Append(init_positions, pair')
             ELSE init_positions' = init_positions
    /\ n_draws' = n_draws => init_positions' = init_positions
    /\ init_pc' # init_pc => Len(init_positions) = nwalkers

\* C18: the initialisation loop hands run_MCMC exactly nwalkers initial
\* positions, each of which satisfies param_check: a draw outside the
\* admissible box is discarded and never appears among the positions, an
\* accepted draw is appended, and no draw is made once nwalkers positions
\* have been accepted.
C18_InitialPositionsAdmissible == [](C18_Handed) /\ [][C18_Step]_vars

\* C18 witness: run_MCMC has been called with nwalkers different positions
\* after more than nwalkers draws, some of which were discarded.
C18_Witness ==
    /\ init_pc = "run_MCMC"
    /\ n_draws > nwalkers
    /\ Len(init_positions) = nwalkers
    /\ init_positions[1] # init_positions[2]

(***************************************************************************)
(* Claims about safe_log and reg_vals (checked under SpecFloor).           *)
(***************************************************************************)
\* The array returned has the shape of the array passed and every element
\* floored.
C11_ReturnedFloored ==
    floored # <<>> =>
        /\ floored.out.shape = floored.passed.shape
        /\ DOMAIN floored.out.flat = DOMAIN floored.passed.flat
        /\ \A i \in DOMAIN floored.passed.flat :
              LET x == floored.passed.flat[i]
              IN  IF floored.fn = "safe_log"
                  THEN floored.out.flat[i] = NpLog(RMax(x, epsilon))
                  ELSE floored.out.flat[i] =
                           (IF LLt(x, log_epsilon) THEN log_epsilon ELSE x)

\* The caller's array holds after the call what it held when it was passed.
C11_CallerArrayKept == floored # <<>> => arr = floored.passed

\* C11: safe_log and reg_vals are both pure: for every array of any shape,
\* the call leaves the caller's array unchanged and returns an array of the
\* same shape with every element floored (safe_log: ln(max(x, threshold));
\* reg_vals: max(x, threshold)).
C11_FloorFunctionsPure ==
    [](C11_ReturnedFloored /\ C11_CallerArrayKept) /\ [][arr' = arr]_vars

\* What holds of the two: the returned array is floored as stated, and
\* safe_log returns a new array and leaves the caller's array as it was.
C11_SafeLogPure ==
    /\ C11_ReturnedFloored
    /\ (floored # <<>> /\ floored.fn = "safe_log") =>
          (arr = floored.passed /\ ~floored.same_object)

(***************************************************************************)
(* Claims about parallel evaluations (checked under SpecThreads).          *)
(***************************************************************************)
\* Every call that has returned returned what a call alone returns.
C12_ReturnsAsAlone ==
    \A t \in Threads :
        thread_pc[t] = "done" =>
            /\ const_term = ConstTermOf(lninterimposteriors, interim_ln_prior,
                                        ln_selection_function)
            /\ flat_lnhyperlikelihood = FlatOf(interim_ln_prior)
            /\ thread_ret[t] = lnhyperposterior(thread_h[t])

\* C12: const_term is written once, before sampling, and no evaluation of
\* lnposterior or lnhyperposterior modifies it, nor flat_lnhyperlikelihood;
\* so when several sampler threads evaluate lnhyperposterior for different
\* walkers at the same time, under every interleaving each evaluation
\* returns the value it returns when run alone.
C12_SharedArraysReadOnly ==
    [](C12_ReturnsAsAlone)
        /\ [][UNCHANGED <<const_term, flat_lnhyperlikelihood>>]_vars

\* C12 witness: two threads have returned values for different walkers,
\* each having run while the other was inside its call.
C12_Witness ==
    /\ thread_pc = [t \in Threads |-> "done"]
    /\ thread_h[1] # thread_h[2]
    /\ \A t \in Threads : interleaved[t] /\ thread_ret[t].kind = "ok"
    /\ thread_ret[1] # thread_ret[2]

=============================================================================
